---------------------------- MODULE Spec2Model ----------------------------
(***************************************************************************)
(* Model of the risk-scoring core of the KASU retention system             *)
(* (src/ml_model.py): predict_dropout_risk, _map_course_to_number and      *)
(* get_intervention_strategy, called by one or several request threads.    *)
(*                                                                         *)
(* Numbers.  A Python float is an integer number of thousandths (0.7 is    *)
(* 700), or NaN.  round(x, 2) is Round2, whose results are multiples of 10 *)
(* thousandths.  The form's gpa and attendance are hundredths, incomes are *)
(* plain currency units, and the derived features are hundredths.          *)
(***************************************************************************)
EXTENDS Integers, Sequences, FiniteSets

VARIABLES
    pc,            \* per caller: position in predict_dropout_risk / the pipeline
    student_data,  \* per caller: the attributes dict passed to the call
    ml_model,      \* per caller: the ml_model argument ("None" or "model")
    X,             \* per caller: the DataFrame row presented to the capability
    prevX,         \* per caller: X of the preceding call when it is repeated
    proba,         \* per caller: how ml_model.predict_proba(X)[0, 1] ended
    pred,          \* per caller: how ml_model.predict(X)[0] ended
    raw,           \* per caller: the float the capability put into its output
    risk_score,    \* per caller: the local risk_score
    draw,          \* per caller: the sample np.random.uniform returned
    err,           \* per caller: the exception the outer except caught
    ret,           \* per caller: the value predict_dropout_risk returned
    raised,        \* per caller: the exception that reached the caller
    logged,        \* per caller: lines this call printed
    strategy,      \* per caller: the string get_intervention_strategy returned
    rng,           \* shared: position of NumPy's global RandomState
    stdout,        \* shared: number of lines written to standard output
    users,         \* database: the committed rows of table users
    students,      \* database: the committed rows of table students
    predictions,   \* database: the committed rows of table predictions
    req            \* per request thread: the route it runs and its locals

vars == <<pc, student_data, ml_model, X, prevX, proba, pred, raw, risk_score, draw,
          err, ret, raised, logged, strategy, rng, stdout,
          users, students, predictions, req>>

\* the state of app.py's routes: the database and the requests in progress
dbvars == <<users, students, predictions, req>>

\* the state of the scoring core
corevars == <<pc, student_data, ml_model, X, prevX, proba, pred, raw, risk_score,
              draw, err, ret, raised, logged, strategy, rng, stdout>>

locals == <<student_data, ml_model, X, prevX, proba, pred, raw, risk_score, draw,
            err, ret, raised, logged, strategy>>

----------------------------------------------------------------------------
(* Bounds of the model *)

\* number of request threads that may be inside the core at once
NumCallers == 2
\* how far (in thousandths) the inputs spread around each interesting point
Window == 12
\* how many quarter units a capability's output may lie outside [0, 1]
MaxExcess == 2
\* number of distinguished positions of the global random generator
RngStates == 3
\* lines standard output holds before no further call is started
MaxLines == 3

Callers == 1..NumCallers

----------------------------------------------------------------------------
(* Python values *)

\* float('nan'): every ordered comparison with it is False
NaN == 0 - 1000000
\* a local that has not been assigned
Unset == 0 - 2000000

Lt(a, b) == a # NaN /\ b # NaN /\ a < b
Gt(a, b) == a # NaN /\ b # NaN /\ a > b
Ge(a, b) == a # NaN /\ b # NaN /\ a >= b

\* min(a, b) and max(a, b) of Python: the first argument is kept unless the
\* second compares strictly smaller (greater)
PyMin(a, b) == IF Lt(b, a) THEN b ELSE a
PyMax(a, b) == IF Gt(b, a) THEN b ELSE a

\* round(x, 2) forgotten: the value is passed through
Round2Missing(x, up) == x

\* round(x, 2).  Python rounds the exact binary value of the float: a decimal
\* x.xx5 that is a multiple of 1/8 is stored exactly and goes to the even
\* neighbour; any other x.xx5 is stored slightly above or below the midpoint
\* (up), which decides the direction.  round(nan, 2) is nan.
Round2(x, up) ==
    IF x = NaN THEN NaN
    ELSE LET a == IF x < 0 THEN 0 - x ELSE x
             q == a \div 10
             r == a % 10
             m == IF r < 5 THEN q
                  ELSE IF r > 5 THEN q + 1
                  ELSE IF a % 125 = 0 THEN (IF q % 2 = 0 THEN q ELSE q + 1)
                  ELSE IF up THEN q + 1 ELSE q
         IN  IF x < 0 THEN 0 - (m * 10) ELSE m * 10

----------------------------------------------------------------------------
(* _map_course_to_number *)

course_mapping ==
    [c \in {"Computer Science", "Engineering", "Medicine", "Law",
            "Business Administration", "Business", "Education", "Agriculture"} |->
        CASE c = "Computer Science" -> 1
          [] c = "Engineering" -> 2
          [] c = "Medicine" -> 3
          [] c = "Law" -> 4
          [] c = "Business Administration" -> 5
          [] c = "Business" -> 5
          [] c = "Education" -> 6
          [] c = "Agriculture" -> 7]

\* the fallback of course_mapping.get is 0 instead of 1
map_course_fallback_zero(course_name) ==
    IF course_name \in DOMAIN course_mapping THEN course_mapping[course_name] ELSE 0

\* course_mapping.get(course_name, 1)
map_course_to_number(course_name) ==
    IF course_name \in DOMAIN course_mapping THEN course_mapping[course_name] ELSE 1

----------------------------------------------------------------------------
(* get_intervention_strategy *)

CRITICAL == " CRITICAL: Immediate counseling, financial aid assessment, parental notification"
MODERATE == " MODERATE: Academic counseling, tutoring, attendance monitoring"
LOW == " LOW: Regular check-ins, progress monitoring"

\* the thresholds compared with >= instead of >
strategy_inclusive(score) ==
    IF Ge(score, 700) THEN CRITICAL
    ELSE IF Ge(score, 400) THEN MODERATE
    ELSE LOW

get_intervention_strategy(score) ==
    IF Gt(score, 700) THEN CRITICAL
    ELSE IF Gt(score, 400) THEN MODERATE
    ELSE LOW

----------------------------------------------------------------------------
(* The attributes dict.  A dict is a function whose domain holds the keys    *)
(* that are present; student_data['k'] raises KeyError outside the domain.  *)

Fields == {"gpa", "attendance", "failures", "course", "residence",
           "parental_income", "age"}

\* per field: <<>> for "key absent", <<v>> for "key present with value v"
FieldOptions ==
    [gpa : {<<>>, <<320>>, <<280>>},
     attendance : {<<>>, <<8550>>, <<7500>>, <<7499>>},
     failures : {<<>>, <<1>>, <<0>>},
     course : {<<>>} \cup {<<c>> : c \in DOMAIN course_mapping
                                   \cup {"computer science", "BUSINESS", "Physics", ""}},
     residence : {<<>>, <<"Urban">>, <<"Rural">>, <<"rural">>},
     parental_income : {<<>>, <<450000>>, <<280000>>},
     age : {<<>>, <<20>>, <<17>>}]

\* the demo student KASU001 of app.py, aged 20
BaseOptions ==
    [gpa |-> <<320>>, attendance |-> <<8550>>, failures |-> <<1>>,
     course |-> <<"Computer Science">>, residence |-> <<"Urban">>,
     parental_income |-> <<450000>>, age |-> <<20>>]

MkRecord(o) == [k \in {f \in Fields : o[f] # <<>>} |-> o[k][1]]

Deviating(o) == {f \in Fields : o[f] # BaseOptions[f]}

\* the base record, every record that differs from it in one field, and every
\* record that lacks some of the required fields
WideRecords ==
    {MkRecord(o) : o \in {q \in FieldOptions :
        \/ Cardinality(Deviating(q)) <= 1
        \/ \A f \in Deviating(q) : f \in {"gpa", "attendance", "failures"} /\ q[f] = <<>>}}

\* a record that relies on a default, and one that lacks a required field
NarrowRecords ==
    {MkRecord([BaseOptions EXCEPT !.age = <<>>]),
     MkRecord([BaseOptions EXCEPT !.attendance = <<>>])}

----------------------------------------------------------------------------
(* predict_dropout_risk: the features dict and the DataFrame row *)

\* student_data.get(key, default)
Get(sd, key, default) == IF key \in DOMAIN sd THEN sd[key] ELSE default

\* the defaults stored into the dict, as student_data.setdefault would
DictAfterSetdefault(sd) ==
    [k \in DOMAIN sd \cup {"age", "course", "residence", "parental_income"} |->
        CASE k \in DOMAIN sd -> sd[k]
          [] k = "age" -> 20
          [] k = "course" -> "Computer Science"
          [] k = "residence" -> "Urban"
          [] k = "parental_income" -> 300000]

\* the dict after the student_data.get(...) lookups and the subscripts of
\* lines 13-24: none of them stores into it
DictAfterGet(sd) == sd

\* the subscripts student_data['gpa'], ['attendance'], ['failures'] in the
\* order the dict display evaluates them; the first absent key raises
RequiredKeys == <<"gpa", "attendance", "failures">>

MissingKeys(sd) == {i \in 1..Len(RequiredKeys) : RequiredKeys[i] \notin DOMAIN sd}

FirstMissing(sd) ==
    RequiredKeys[CHOOSE i \in MissingKeys(sd) : \A j \in MissingKeys(sd) : i <= j]

\* defined when no required key is missing.  Incomes are multiples of 2000,
\* so that the two quotients are exact in hundredths.
features(sd) ==
    [n \in {"Age", "Gender", "Course_Chosen", "Residence_Location",
            "Semester_Average_Grade", "Parental_Income_Level", "Attendance",
            "Marital_Status", "Course_Failures", "Financial_Stress",
            "Attendance_Compliance", "Rural_Disadvantage"} |->
        CASE n = "Age" -> Get(sd, "age", 20)
          [] n = "Gender" -> 1
          [] n = "Course_Chosen" ->
                 map_course_to_number(Get(sd, "course", "Computer Science"))
          [] n = "Residence_Location" ->
                 IF Get(sd, "residence", "Urban") = "Rural" THEN 1 ELSE 0
          [] n = "Semester_Average_Grade" -> sd["gpa"] * 25
          [] n = "Parental_Income_Level" ->
                 (Get(sd, "parental_income", 300000) * 100) \div 50000
          [] n = "Attendance" -> sd["attendance"]
          [] n = "Marital_Status" -> 0
          [] n = "Course_Failures" -> sd["failures"]
          [] n = "Financial_Stress" ->
                 (Get(sd, "parental_income", 300000) * 100) \div 200000
          [] n = "Attendance_Compliance" ->
                 IF sd["attendance"] >= 7500 THEN 1 ELSE 0
          [] n = "Rural_Disadvantage" ->
                 IF Get(sd, "residence", "Urban") = "Rural" THEN 1 ELSE 0]

\* the list with two columns exchanged
expected_features_swapped ==
    <<"Age", "Gender", "Course_Chosen", "Residence_Location",
      "Semester_Average_Grade", "Attendance", "Parental_Income_Level",
      "Marital_Status", "Course_Failures", "Financial_Stress",
      "Attendance_Compliance", "Rural_Disadvantage">>

expected_features ==
    <<"Age", "Gender", "Course_Chosen", "Residence_Location",
      "Semester_Average_Grade", "Parental_Income_Level", "Attendance",
      "Marital_Status", "Course_Failures", "Financial_Stress",
      "Attendance_Compliance", "Rural_Disadvantage">>

\* pd.DataFrame([features])[expected_features]: one row, the columns named and
\* ordered by expected_features; each cell is <<column name, value>>
DataFrame(sd) ==
    [i \in 1..Len(expected_features) |->
        <<expected_features[i], features(sd)[expected_features[i]]>>]

----------------------------------------------------------------------------
(* Inputs: random samples and capability outputs *)

\* np.random.uniform over the whole unit interval instead of (0.1, 0.9)
InUniformRangeUnit(u) == u >= 0 /\ u <= 1000

\* np.random.uniform(0.1, 0.9): low + (high - low) * random_sample()
InUniformRange(u) == u >= 100 /\ u <= 900

Near(v, points) == \E p \in points : v >= p - Window /\ v <= p + Window

\* the floats a capability may put into its output: around the thresholds and
\* the ends of [0, 1], far outside [0, 1], and NaN
WideRaws ==
    {v \in (0 - Window)..(1000 + Window) : Near(v, {0, 400, 500, 700, 1000})}
    \cup {0 - 250 * k : k \in 1..MaxExcess}
    \cup {1000 + 250 * k : k \in 1..MaxExcess}
    \cup {NaN}

WideDraws ==
    {u \in (0 - Window)..(1000 + Window) :
        InUniformRange(u) /\ Near(u, {0, 100, 500, 900, 1000})}

NarrowRaws == {0 - 250, 705}

NarrowDraws == {u \in {95, 505, 900} : InUniformRange(u)}

Wide == [records |-> WideRecords, raws |-> WideRaws, draws |-> WideDraws]

Narrow == [records |-> NarrowRecords, raws |-> NarrowRaws, draws |-> NarrowDraws]

\* how ml_model.predict_proba(X)[0, 1] may end:
\*   unsupported  the model has no predict_proba: the lookup raises AttributeError
\*   attr_error   predict_proba exists and raises AttributeError while it runs
\*   error        predict_proba raises another Exception
\*   malformed    the output cannot be subscripted by [0, 1], or the cell is
\*                not a number and round() raises TypeError
\*   value        the cell [0, 1] is the float v
ProbaOutcomes(D) ==
    {[kind |-> k, v |-> Unset] : k \in {"unsupported", "attr_error", "error", "malformed"}}
    \cup {[kind |-> "value", v |-> r] : r \in D.raws}

\* how ml_model.predict(X)[0] may end: error (any Exception, a missing predict
\* included), malformed (the subscript, min or max raises), or the float v
PredictOutcomes(D) ==
    {[kind |-> k, v |-> Unset] : k \in {"error", "malformed"}}
    \cup {[kind |-> "value", v |-> r] : r \in D.raws}

\* the clamp left out
ClampMissing(r) == r

\* max(0, min(1, risk_score))
Clamp(r) == PyMax(0, PyMin(1000, r))

----------------------------------------------------------------------------
(* The calls *)

Cleared(c) ==
    /\ X' = [X EXCEPT ![c] = <<>>]
    /\ proba' = [proba EXCEPT ![c] = "none"]
    /\ pred' = [pred EXCEPT ![c] = "none"]
    /\ raw' = [raw EXCEPT ![c] = Unset]
    /\ risk_score' = [risk_score EXCEPT ![c] = Unset]
    /\ draw' = [draw EXCEPT ![c] = Unset]
    /\ err' = [err EXCEPT ![c] = <<>>]
    /\ ret' = [ret EXCEPT ![c] = Unset]
    /\ raised' = [raised EXCEPT ![c] = <<>>]
    /\ logged' = [logged EXCEPT ![c] = 0]
    /\ strategy' = [strategy EXCEPT ![c] = ""]

Active == {c \in Callers : pc[c] # "idle"}

\* every call in progress can still print its line
Room(n) == stdout + n < MaxLines

\* a caller builds student_data and calls predict_dropout_risk(student_data, ml_model)
Call(c, D) ==
    /\ pc[c] = "idle"
    /\ Room(Cardinality(Active))
    /\ \E sd \in D.records, m \in {"None", "model"} :
        /\ student_data' = [student_data EXCEPT ![c] = sd]
        /\ ml_model' = [ml_model EXCEPT ![c] = m]
    /\ pc' = [pc EXCEPT ![c] = "start"]
    /\ prevX' = [prevX EXCEPT ![c] = <<>>]
    /\ UNCHANGED dbvars
    /\ UNCHANGED <<raw, X, proba, pred, risk_score, draw, err, ret, raised, logged,
                   strategy, rng, stdout>>

\* the caller assesses the same attributes once more
CallAgain(c) ==
    /\ pc[c] = "done"
    /\ Room(Cardinality(Active) - 1)
    /\ \E m \in {"None", "model"} : ml_model' = [ml_model EXCEPT ![c] = m]
    /\ pc' = [pc EXCEPT ![c] = "start"]
    /\ prevX' = [prevX EXCEPT ![c] = X[c]]
    /\ Cleared(c)
    /\ UNCHANGED dbvars
    /\ UNCHANGED <<student_data, rng, stdout>>

\* lines 6-8: demo mode
Demo(c, D) ==
    /\ pc[c] = "start"
    /\ ml_model[c] = "None"
    /\ \E u \in D.draws, up \in BOOLEAN :
        /\ draw' = [draw EXCEPT ![c] = u]
        /\ ret' = [ret EXCEPT ![c] = Round2(u, up)]
    /\ rng' = (rng + 1) % RngStates
    /\ pc' = [pc EXCEPT ![c] = "returned"]
    /\ UNCHANGED dbvars
    /\ UNCHANGED <<raw, student_data, ml_model, X, prevX, proba, pred, risk_score,
                   err, raised, logged, strategy, stdout>>

\* lines 12-36: the features dict and the DataFrame; a missing required key
\* raises KeyError inside the try block
Encode(c) ==
    /\ pc[c] = "start"
    /\ ml_model[c] = "model"
    /\ IF MissingKeys(student_data[c]) # {}
       THEN /\ err' = [err EXCEPT ![c] = <<"KeyError", FirstMissing(student_data[c])>>]
            /\ pc' = [pc EXCEPT ![c] = "except"]
            /\ X' = X
       ELSE /\ X' = [X EXCEPT ![c] = DataFrame(student_data[c])]
            /\ pc' = [pc EXCEPT ![c] = "predict_proba"]
            /\ err' = err
    /\ student_data' = [student_data EXCEPT ![c] = DictAfterGet(student_data[c])]
    /\ UNCHANGED dbvars
    /\ UNCHANGED <<raw, ml_model, prevX, proba, pred, risk_score, draw,
                   ret, raised, logged, strategy, rng, stdout>>

\* lines 39-42: risk_score = ml_model.predict_proba(X)[0, 1], AttributeError
\* handled by the inner except
PredictProba(c, D) ==
    /\ pc[c] = "predict_proba"
    /\ \E o \in ProbaOutcomes(D) :
        /\ proba' = [proba EXCEPT ![c] = o.kind]
        /\ raw' = [raw EXCEPT ![c] = o.v]
        /\ risk_score' = [risk_score EXCEPT ![c] = o.v]
        /\ pc' = [pc EXCEPT ![c] =
                CASE o.kind \in {"unsupported", "attr_error"} -> "predict"
                  [] o.kind \in {"error", "malformed"} -> "except"
                  [] o.kind = "value" -> "round"]
        /\ err' = [err EXCEPT ![c] =
                CASE o.kind = "error" -> <<"Exception", "predict_proba">>
                  [] o.kind = "malformed" -> <<"TypeError", "predict_proba">>
                  [] OTHER -> <<>>]
    /\ UNCHANGED dbvars
    /\ UNCHANGED <<student_data, ml_model, X, prevX, pred, draw, ret, raised,
                   logged, strategy, rng, stdout>>

\* lines 44-45: risk_score = ml_model.predict(X)[0], then the clamp
Predict(c, D) ==
    /\ pc[c] = "predict"
    /\ \E o \in PredictOutcomes(D) :
        /\ pred' = [pred EXCEPT ![c] = o.kind]
        /\ raw' = [raw EXCEPT ![c] = o.v]
        /\ risk_score' = [risk_score EXCEPT ![c] =
                IF o.kind = "value" THEN Clamp(o.v) ELSE Unset]
        /\ pc' = [pc EXCEPT ![c] = IF o.kind = "value" THEN "round" ELSE "except"]
        /\ err' = [err EXCEPT ![c] =
                CASE o.kind = "error" -> <<"Exception", "predict">>
                  [] o.kind = "malformed" -> <<"TypeError", "predict">>
                  [] OTHER -> <<>>]
    /\ UNCHANGED dbvars
    /\ UNCHANGED <<student_data, ml_model, X, prevX, proba, draw, ret, raised,
                   logged, strategy, rng, stdout>>

\* line 47: return round(risk_score, 2)
Return(c) ==
    /\ pc[c] = "round"
    /\ \E up \in BOOLEAN : ret' = [ret EXCEPT ![c] = Round2(risk_score[c], up)]
    /\ pc' = [pc EXCEPT ![c] = "returned"]
    /\ UNCHANGED dbvars
    /\ UNCHANGED <<raw, student_data, ml_model, X, prevX, proba, pred, risk_score,
                   draw, err, raised, logged, strategy, rng, stdout>>

\* lines 49-51: except Exception: print the error and return 0.5
Except(c) ==
    /\ pc[c] = "except"
    /\ stdout' = stdout + 1
    /\ logged' = [logged EXCEPT ![c] = logged[c] + 1]
    /\ ret' = [ret EXCEPT ![c] = 500]
    /\ pc' = [pc EXCEPT ![c] = "returned"]
    /\ UNCHANGED dbvars
    /\ UNCHANGED <<raw, student_data, ml_model, X, prevX, proba, pred, risk_score,
                   draw, err, raised, strategy, rng>>

\* the caller passes the score to get_intervention_strategy
Select(c) ==
    /\ pc[c] = "returned"
    /\ strategy' = [strategy EXCEPT ![c] = get_intervention_strategy(ret[c])]
    /\ pc' = [pc EXCEPT ![c] = "done"]
    /\ UNCHANGED dbvars
    /\ UNCHANGED <<raw, student_data, ml_model, X, prevX, proba, pred, risk_score,
                   draw, err, ret, raised, logged, rng, stdout>>

\* the caller is done with the assessment; nothing of it is kept
Finish(c) ==
    /\ pc[c] = "done"
    /\ pc' = [pc EXCEPT ![c] = "idle"]
    /\ student_data' = [student_data EXCEPT ![c] = <<>>]
    /\ ml_model' = [ml_model EXCEPT ![c] = "None"]
    /\ prevX' = [prevX EXCEPT ![c] = <<>>]
    /\ Cleared(c)
    /\ UNCHANGED dbvars
    /\ UNCHANGED <<rng, stdout>>

----------------------------------------------------------------------------
(* app.py: the database and the routes student_register, assess, analytics *)

\* number of request threads Flask serves at once
NumRequests == 2

Requests == 1..NumRequests

\* initialize_database: the admin, the demo lecturer and the two demo students
\* (user_id 0 is NULL)
InitUsers ==
    {[id |-> 1, username |-> "admin", role |-> "admin"],
     [id |-> 2, username |-> "lecturer1", role |-> "lecturer"]}

InitStudents ==
    {[id |-> 1, student_id |-> "KASU001", user_id |-> 0],
     [id |-> 2, student_id |-> "KASU002", user_id |-> 0]}

\* a request thread that serves nothing
NoRequest ==
    [route |-> "idle", pc |-> "idle", sid |-> "", stu |-> 0, uid |-> 0,
     risk |-> Unset, result |-> "", dist |-> [low |-> 0, medium |-> 0, high |-> 0]]

\* the integer primary key SQLite gives the next row of a table
NextId(rows) ==
    IF rows = {} THEN 1
    ELSE 1 + CHOOSE m \in {x.id : x \in rows} : \A x \in rows : x.id <= m

\* what the registration form may hold as student_id
RegisterForm == {"KASU001", " kasu003 ", "KASU009"}

\* request.form['student_id'].strip().upper()
StripUpper(text) == IF text = " kasu003 " THEN "KASU003" ELSE text

\* what the assessment form may hold as student_id
AssessIds == {"KASU001", "KASU003"}

\* the scores predict_dropout_risk hands to assess: hundredths around the
\* bucket limits, and nan
AssessScores == {Round2(v, TRUE) : v \in {390, 400, 700, 710, NaN}}

\* Student.query.filter_by(student_id=...).first()
StudentsWithId(sid) == {x \in students : x.student_id = sid}

\* User.query.filter_by(username=...).first() is not None
UsernameTaken(name) == \E u \in users : u.username = name

\* the INSERT of assess violates a constraint: students.student_id is unique,
\* predictions.risk_score is NOT NULL (SQLite stores nan as NULL)
InsertRejected(sid, risk) ==
    \/ StudentsWithId(sid) # {}
    \/ risk = NaN

\* the failed transaction leaves its pending row in the table
AfterRollbackKeeps(table, pending) == table \cup {pending}

\* db.session.rollback(): the pending row is discarded
AfterRollback(table, pending) == table

\* the filters of the three counts of analytics and debug_predictions
InLow(score) == score < 400
InMedium(score) == score >= 400 /\ score <= 700
InHigh(score) == score > 700

risk_distribution ==
    [low |-> Cardinality({p \in predictions : InLow(p.risk_score)}),
     medium |-> Cardinality({p \in predictions : InMedium(p.risk_score)}),
     high |-> Cardinality({p \in predictions : InHigh(p.risk_score)})]

Finished(r, outcome) == [req EXCEPT ![r].pc = "done", ![r].result = outcome]

\* student_register, lines 396-403: the form and the password check
RegisterStart(r) ==
    /\ req[r].pc = "idle"
    /\ \E text \in RegisterForm, match \in BOOLEAN :
        req' = [req EXCEPT ![r] =
            [NoRequest EXCEPT !.route = "register",
                              !.sid = StripUpper(text),
                              !.pc = IF match THEN "lookup" ELSE "done",
                              !.result = IF match THEN "" ELSE "rejected: passwords"]]
    /\ UNCHANGED <<users, students, predictions>>
    /\ UNCHANGED corevars

\* lines 406-414: the student is looked up and must have no account yet
RegisterLookup(r) ==
    /\ req[r].route = "register"
    /\ req[r].pc = "lookup"
    /\ LET found == StudentsWithId(req[r].sid)
       IN  IF found = {}
           THEN req' = Finished(r, "rejected: not found")
           ELSE LET student == CHOOSE x \in found : TRUE
                IN  IF student.user_id # 0
                    THEN req' = Finished(r, "rejected: has account")
                    ELSE req' = [req EXCEPT ![r].pc = "usercheck",
                                            ![r].stu = student.id]
    /\ UNCHANGED <<users, students, predictions>>
    /\ UNCHANGED corevars

\* lines 417-422: the username must be free
RegisterUserCheck(r) ==
    /\ req[r].route = "register"
    /\ req[r].pc = "usercheck"
    /\ IF UsernameTaken(req[r].sid)
       THEN req' = Finished(r, "rejected: username")
       ELSE req' = [req EXCEPT ![r].pc = "commit_user"]
    /\ UNCHANGED <<users, students, predictions>>
    /\ UNCHANGED corevars

\* lines 424-428: the user row is added and committed; the commit fails when
\* the username has been taken meanwhile (unique) or the database refuses it
RegisterCommitUser(r) ==
    /\ req[r].route = "register"
    /\ req[r].pc = "commit_user"
    /\ \E refused \in BOOLEAN :
        LET user == [id |-> NextId(users), username |-> req[r].sid, role |-> "student"]
        IN  IF refused \/ UsernameTaken(req[r].sid)
            THEN /\ req' = Finished(r, "error")
                 /\ users' = users
            ELSE /\ req' = [req EXCEPT ![r].pc = "commit_link", ![r].uid = user.id]
                 /\ users' = users \cup {user}
    /\ UNCHANGED <<students, predictions>>
    /\ UNCHANGED corevars

\* lines 431-432: student.user_id = user.id and the second commit, which the
\* database may refuse; the rollback of line 438 does not undo the first commit
RegisterCommitLink(r) ==
    /\ req[r].route = "register"
    /\ req[r].pc = "commit_link"
    /\ \E refused \in BOOLEAN :
        IF refused
        THEN /\ req' = Finished(r, "error")
             /\ students' = students
        ELSE /\ req' = Finished(r, "created")
             /\ students' = {IF x.id = req[r].stu THEN [x EXCEPT !.user_id = req[r].uid]
                                                 ELSE x : x \in students}
    /\ UNCHANGED <<users, predictions>>
    /\ UNCHANGED corevars

\* assess, lines 223-238: the form is parsed (float() and int() may raise) and
\* predict_dropout_risk gives the score
AssessStart(r) ==
    /\ req[r].pc = "idle"
    /\ \E sid \in AssessIds, parsed \in BOOLEAN, risk \in AssessScores :
        req' = [req EXCEPT ![r] =
            IF parsed
            THEN [NoRequest EXCEPT !.route = "assess", !.sid = sid, !.risk = risk,
                                   !.pc = "commit"]
            ELSE [NoRequest EXCEPT !.route = "assess", !.sid = sid,
                                   !.pc = "done", !.result = "error"]]
    /\ UNCHANGED <<users, students, predictions>>
    /\ UNCHANGED corevars

\* lines 241-266: the Student and its Prediction are added and committed in
\* one transaction; when the commit fails the session is rolled back
AssessCommit(r) ==
    /\ req[r].route = "assess"
    /\ req[r].pc = "commit"
    /\ \E refused \in BOOLEAN :
        LET student == [id |-> NextId(students), student_id |-> req[r].sid, user_id |-> 0]
            prediction == [id |-> NextId(predictions), student_id |-> student.id,
                           risk_score |-> req[r].risk]
        IN  IF refused \/ InsertRejected(req[r].sid, req[r].risk)
            THEN /\ req' = Finished(r, "error")
                 /\ students' = AfterRollback(students, student)
                 /\ predictions' = AfterRollback(predictions, prediction)
            ELSE /\ req' = Finished(r, "assessed")
                 /\ students' = students \cup {student}
                 /\ predictions' = predictions \cup {prediction}
    /\ UNCHANGED users
    /\ UNCHANGED corevars

\* analytics, lines 302-308: the three counts
Analytics(r) ==
    /\ req[r].pc = "idle"
    /\ req' = [req EXCEPT ![r] =
            [NoRequest EXCEPT !.route = "analytics", !.pc = "done",
                              !.dist = risk_distribution]]
    /\ UNCHANGED <<users, students, predictions>>
    /\ UNCHANGED corevars

\* the response is sent
Respond(r) ==
    /\ req[r].pc = "done"
    /\ req' = [req EXCEPT ![r] = NoRequest]
    /\ UNCHANGED <<users, students, predictions>>
    /\ UNCHANGED corevars

Init ==
    /\ pc = [c \in Callers |-> "idle"]
    /\ student_data = [c \in Callers |-> <<>>]
    /\ ml_model = [c \in Callers |-> "None"]
    /\ X = [c \in Callers |-> <<>>]
    /\ prevX = [c \in Callers |-> <<>>]
    /\ proba = [c \in Callers |-> "none"]
    /\ pred = [c \in Callers |-> "none"]
    /\ raw = [c \in Callers |-> Unset]
    /\ risk_score = [c \in Callers |-> Unset]
    /\ draw = [c \in Callers |-> Unset]
    /\ err = [c \in Callers |-> <<>>]
    /\ ret = [c \in Callers |-> Unset]
    /\ raised = [c \in Callers |-> <<>>]
    /\ logged = [c \in Callers |-> 0]
    /\ strategy = [c \in Callers |-> ""]
    /\ rng = 0
    /\ stdout = 0
    /\ users = InitUsers
    /\ students = InitStudents
    /\ predictions = {}
    /\ req = [r \in Requests |-> NoRequest]

\* one caller, the wide inputs
Next ==
    \/ Call(1, Wide)
    \/ CallAgain(1)
    \/ Demo(1, Wide)
    \/ Encode(1)
    \/ PredictProba(1, Wide)
    \/ Predict(1, Wide)
    \/ Return(1)
    \/ Except(1)
    \/ Select(1)
    \/ Finish(1)

Spec == Init /\ [][Next]_vars

\* NumCallers callers interleaved, the narrow inputs
ConcurrentNext ==
    \E c \in Callers :
        \/ Call(c, Narrow)
        \/ Demo(c, Narrow)
        \/ Encode(c)
        \/ PredictProba(c, Narrow)
        \/ Predict(c, Narrow)
        \/ Return(c)
        \/ Except(c)
        \/ Select(c)
        \/ Finish(c)

ConcurrentSpec == Init /\ [][ConcurrentNext]_vars

\* NumRequests requests to the routes, interleaved
DbNext ==
    \E r \in Requests :
        \/ RegisterStart(r)
        \/ RegisterLookup(r)
        \/ RegisterUserCheck(r)
        \/ RegisterCommitUser(r)
        \/ RegisterCommitLink(r)
        \/ AssessStart(r)
        \/ AssessCommit(r)
        \/ Analytics(r)
        \/ Respond(r)

DbSpec == Init /\ [][DbNext]_vars

----------------------------------------------------------------------------
(* Properties *)

\* the call of caller c has returned to its caller
Returned(c) == pc[c] \in {"returned", "done"}

\* the capability was invoked and an invocation raised or gave malformed output
CapabilityFailed(c) ==
    \/ proba[c] \in {"attr_error", "error", "malformed"}
    \/ pred[c] \in {"error", "malformed"}

\* the tier the thresholds of the specification give to a float
TierOf(r) ==
    IF r # NaN /\ r > 700 THEN CRITICAL
    ELSE IF r # NaN /\ r > 400 THEN MODERATE
    ELSE LOW

\* C1: get_intervention_strategy maps every score by first-match strict
\* thresholds: above 0.70 CRITICAL, else above 0.40 MODERATE, else LOW; 0.70 is
\* MODERATE, 0.40 is LOW, 0.71 is CRITICAL and 0.41 is MODERATE; every input,
\* also outside [0, 1], gets exactly one of the three tiers.
C1_StrategyThresholds ==
    /\ get_intervention_strategy(710) = CRITICAL
    /\ get_intervention_strategy(700) = MODERATE
    /\ get_intervention_strategy(410) = MODERATE
    /\ get_intervention_strategy(400) = LOW
    /\ Cardinality({CRITICAL, MODERATE, LOW}) = 3
    /\ \A r \in WideRaws : get_intervention_strategy(r) = TierOf(r)
    /\ \A c \in Callers : pc[c] = "done" =>
        /\ strategy[c] \in {CRITICAL, MODERATE, LOW}
        /\ strategy[c] = CRITICAL <=> (ret[c] # NaN /\ ret[c] > 700)
        /\ strategy[c] = MODERATE <=> (ret[c] # NaN /\ ret[c] > 400 /\ ret[c] <= 700)
        /\ strategy[c] = LOW <=> (ret[c] = NaN \/ ret[c] <= 400)

\* a score of exactly 0.70 was mapped, and got MODERATE
C1_Witness ==
    \E c \in Callers : pc[c] = "done" /\ ret[c] = 700 /\ strategy[c] = MODERATE

\* C2: whenever an invocation of the scoring capability raises or returns
\* malformed output, predict_dropout_risk returns exactly 0.50 and raises
\* nothing to its caller.
C2_FailureGivesNeutral ==
    \A c \in Callers : (Returned(c) /\ CapabilityFailed(c)) =>
        (ret[c] = 500 /\ raised[c] = <<>>)

\* C3: every value predict_dropout_risk returns lies in [0.0, 1.0], whatever
\* the capability of either shape outputs, in demo mode and on the failure path.
C3_ScoreInUnitInterval ==
    \A c \in Callers : Returned(c) => (ret[c] # NaN /\ ret[c] >= 0 /\ ret[c] <= 1000)

\* C4: when gpa, attendance or failures is absent from the attributes, the
\* assessment fails with a MissingFieldError naming the field, which reaches
\* the caller, and no risk score is returned in its place.
C4_MissingFieldPropagates ==
    \A c \in Callers : (Returned(c) /\ MissingKeys(student_data[c]) # {}) =>
        /\ raised[c] = <<"MissingFieldError", FirstMissing(student_data[c])>>
        /\ ret[c] = Unset

\* C5: in demo mode (no capability) every returned value v has
\* 0.1 <= v <= 0.9 and is a multiple of 0.01, whatever the record and the sample.
C5_DemoRange ==
    \A c \in Callers : (Returned(c) /\ ml_model[c] = "None") =>
        (ret[c] >= 100 /\ ret[c] <= 900 /\ ret[c] % 10 = 0)

\* a demo-mode call drew 0.896 and returned 0.9
C5_Witness ==
    \E c \in Callers :
        Returned(c) /\ ml_model[c] = "None" /\ draw[c] = 896 /\ ret[c] = 900

\* C6: the row presented to the capability has exactly the 12 columns Age,
\* Gender, Course_Chosen, Residence_Location, Semester_Average_Grade,
\* Parental_Income_Level, Attendance, Marital_Status, Course_Failures,
\* Financial_Stress, Attendance_Compliance, Rural_Disadvantage in this order,
\* and encoding the same attributes a second time gives the same row.
C6_FeatureOrder ==
    \A c \in Callers :
        /\ (proba[c] # "none" \/ pred[c] # "none" \/ pc[c] = "predict_proba")
              => X[c] # <<>>
        /\ X[c] # <<>> =>
            /\ Len(X[c]) = 12
            /\ [i \in 1..12 |-> X[c][i][1]] =
                  <<"Age", "Gender", "Course_Chosen", "Residence_Location",
                    "Semester_Average_Grade", "Parental_Income_Level",
                    "Attendance", "Marital_Status", "Course_Failures",
                    "Financial_Stress", "Attendance_Compliance",
                    "Rural_Disadvantage">>
            /\ \A i \in 1..12 : X[c][i][2] \in Int
            /\ prevX[c] # <<>> => X[c] = prevX[c]

\* the same attributes were encoded a second time and the row was presented
C6_Witness ==
    \E c \in Callers :
        pc[c] = "predict_proba" /\ prevX[c] # <<>> /\ X[c] = prevX[c]

\* C7: Course_Chosen is the code of the course table for a name that matches a
\* key exactly (Business Administration and Business both 5), and 1 for every
\* other name, a name in another case and an absent course included.
C7_CourseCode ==
    \A c \in Callers : X[c] # <<>> =>
        LET sd == student_data[c]
            code == X[c][3][2]
            is(name) == "course" \in DOMAIN sd /\ sd["course"] = name
        IN  /\ X[c][3][1] = "Course_Chosen"
            /\ is("Computer Science") => code = 1
            /\ is("Engineering") => code = 2
            /\ is("Medicine") => code = 3
            /\ is("Law") => code = 4
            /\ is("Business Administration") => code = 5
            /\ is("Business") => code = 5
            /\ is("Education") => code = 6
            /\ is("Agriculture") => code = 7
            /\ (~ \E name \in {"Computer Science", "Engineering", "Medicine",
                               "Law", "Business Administration", "Business",
                               "Education", "Agriculture"} : is(name))
                  => code = 1

\* a course name that differs from a key only in case was encoded as 1
C7_Witness ==
    \E c \in Callers :
        /\ X[c] # <<>>
        /\ "course" \in DOMAIN student_data[c]
        /\ student_data[c]["course"] = "BUSINESS"
        /\ X[c][3][2] = 1

\* C8: every demo-mode call is distinguishable from a capability-backed one:
\* it emits a log signal (its result, a bare float, has no room for a
\* provenance flag).
C8_DemoDistinguishable ==
    \A c \in Callers : (Returned(c) /\ ml_model[c] = "None") => logged[c] > 0

\* C10: whenever the capability fails in an assessment whose required fields
\* are present, the pipeline completes with score 0.50 and the MODERATE
\* guidance string, and never with an error.
C10_DegradedCompletes ==
    \A c \in Callers :
        (pc[c] = "done" /\ MissingKeys(student_data[c]) = {} /\ CapabilityFailed(c)) =>
            (ret[c] = 500 /\ strategy[c] = MODERATE /\ raised[c] = <<>>)

\* everything a call of caller c holds
LocalsOf(c) ==
    <<student_data[c], ml_model[c], X[c], prevX[c], proba[c], pred[c], raw[c],
      risk_score[c], draw[c], err[c], ret[c], raised[c], logged[c], strategy[c]>>

\* a returned value is determined by the call's own model argument, random
\* sample, caught exception and local risk_score
OwnResult(c) ==
    Returned(c) =>
        /\ ml_model[c] = "None" =>
              ret[c] \in {Round2(draw[c], up) : up \in BOOLEAN}
        /\ (ml_model[c] = "model" /\ err[c] # <<>>) => ret[c] = 500
        /\ (ml_model[c] = "model" /\ err[c] = <<>>) =>
              ret[c] \in {Round2(risk_score[c], up) : up \in BOOLEAN}
        /\ MissingKeys(student_data[c]) # {} =>
              (ml_model[c] = "None" \/ err[c] = <<"KeyError", FirstMissing(student_data[c])>>)

\* a step leaves the locals of every caller that did not move alone
OthersUntouched == \A d \in Callers : pc'[d] = pc[d] => LocalsOf(d)' = LocalsOf(d)

\* a call in progress leaves the attributes record it was given as it was
RecordKept ==
    \A c \in Callers : pc[c] \notin {"idle", "done"} => student_data'[c] = student_data[c]

\* the global random generator moves only in a demo-mode draw, and standard
\* output grows only in the except block
SharedOnlyByDrawAndPrint ==
    /\ rng' # rng =>
          \E c \in Callers : pc[c] = "start" /\ ml_model[c] = "None" /\ pc'[c] = "returned"
    /\ stdout' # stdout =>
          \E c \in Callers : pc[c] = "except" /\ pc'[c] = "returned"

\* C9 as stated: under any interleaving each result depends only on the call's
\* own arguments (and its own random draw), no call modifies its attributes
\* record, and no call reads or writes a resource shared with another call.
C9_NoSharedResource ==
    /\ [](\A c \in Callers : OwnResult(c))
    /\ [][OthersUntouched /\ RecordKept /\ rng' = rng /\ stdout' = stdout]_vars

\* C9, amended: under any interleaving each result depends only on the call's
\* own arguments (and its own random draw), no call modifies its attributes
\* record, and the only resources shared between calls are NumPy's global
\* random generator, which a demo-mode draw advances, and standard output, to
\* which the except block prints.
C9_StatelessButRngAndStdout ==
    /\ [](\A c \in Callers : OwnResult(c))
    /\ [][OthersUntouched /\ RecordKept /\ SharedOnlyByDrawAndPrint]_vars

\* two calls are in progress at once: one has drawn its demo-mode sample, and
\* the other, given a record that relies on a default, has encoded it
C9_Witness ==
    \E c, d \in Callers :
        /\ c # d
        /\ pc[c] = "returned" /\ ml_model[c] = "None" /\ rng # 0
        /\ pc[d] = "round" /\ X[d] # <<>> /\ "age" \notin DOMAIN student_data[d]

\* C11: shape (a) is attempted first and shape (b) is used if and only if the
\* capability does not support probability output: predict is invoked only
\* for a model without predict_proba, and an exception raised inside a
\* supported predict_proba ends in the neutral 0.50, not in a call of predict.
C11_ShapeDetection ==
    \A c \in Callers :
        /\ pred[c] # "none" => proba[c] = "unsupported"
        /\ (pc[c] = "predict" \/ pred[c] # "none") => proba[c] # "none"
        /\ (Returned(c) /\ proba[c] = "unsupported") => pred[c] # "none"
        /\ (Returned(c) /\ proba[c] \in {"attr_error", "error", "malformed"}) =>
              (pred[c] = "none" /\ ret[c] = 500)

\* C12: for a capability of shape (b) whose output is the real number r, the
\* returned score is r clamped into [0, 1] and then rounded to 2 decimals:
\* r < 0 gives 0.0, r > 1 gives 1.0, and r in [0, 1] is kept up to rounding
\* (a multiple of 0.01 at most 0.005 away from r).
C12_ClampThenRound ==
    \A c \in Callers : (Returned(c) /\ pred[c] = "value" /\ raw[c] # NaN) =>
        LET r == raw[c]
            clamped == IF r < 0 THEN 0 ELSE IF r > 1000 THEN 1000 ELSE r
        IN  /\ ret[c] % 10 = 0
            /\ ret[c] - clamped <= 5
            /\ clamped - ret[c] <= 5
            /\ r < 0 => ret[c] = 0
            /\ r > 1000 => ret[c] = 1000
            /\ (r >= 0 /\ r <= 1000 /\ r % 10 = 0) => ret[c] = r

\* predict put out 1.25 and the call returned 1.0
C12_Witness ==
    \E c \in Callers :
        Returned(c) /\ pred[c] = "value" /\ raw[c] = 1250 /\ ret[c] = 1000


\* C13: the three buckets analytics counts correspond to the tiers of
\* get_intervention_strategy, also for a stored score of exactly 0.40 or 0.70:
\* low counts the LOW scores, medium the MODERATE ones, high the CRITICAL ones.
C13_BucketsMatchTiers ==
    [][\A r \in Requests :
        (req[r].pc = "idle" /\ req'[r].route = "analytics") =>
            req'[r].dist =
                [low |-> Cardinality({p \in predictions :
                            get_intervention_strategy(p.risk_score) = LOW}),
                 medium |-> Cardinality({p \in predictions :
                            get_intervention_strategy(p.risk_score) = MODERATE}),
                 high |-> Cardinality({p \in predictions :
                            get_intervention_strategy(p.risk_score) = CRITICAL})]]_vars

\* the students a user account is linked from
LinkedFrom(u) == {x \in students : x.user_id = u.id}

\* the registrations that are between their two commits
BetweenCommits(u) == {r \in Requests : req[r].pc = "commit_link" /\ req[r].uid = u.id}

Rejections ==
    {"rejected: passwords", "rejected: not found", "rejected: has account",
     "rejected: username"}

\* C14: under concurrent student_register requests no user account is linked
\* from two Students, every link points to an existing student account, a
\* rejected registration has created no user, and every student account is
\* linked from its Student once its registration is no longer between the two
\* commits: no orphan account is left behind.
C14_RegistrationLinks ==
    /\ \A u \in users : Cardinality(LinkedFrom(u)) <= 1
    /\ \A x \in students :
        x.user_id # 0 => \E u \in users : u.id = x.user_id /\ u.role = "student"
    /\ \A r \in Requests : req[r].result \in Rejections => req[r].uid = 0
    /\ \A u \in users :
        (u.role = "student" /\ BetweenCommits(u) = {}) => LinkedFrom(u) # {}

============================================================================
